---- MODULE Spec2Model ----
(***************************************************************************)
(* A model of the platformsh recipe plugin of lando,                       *)
(* experimental/plugins/lando-platformsh/app.js: the event handlers the    *)
(* plugin registers on an app (pre-init, post-init, pre-start, the three   *)
(* post-start handlers, post-pull and post-push), the persistent cache     *)
(* they read and write, and the asynchronous engine calls they wait for.   *)
(*                                                                         *)
(* One JavaScript turn of the event loop is one action; a handler that     *)
(* runs several statements whose order matters is cut at those statements  *)
(* (pc), and a completion callback fires only when no synchronous code is  *)
(* pending (EventLoopIdle).                                                *)
(***************************************************************************)
EXTENDS Naturals, Sequences, FiniteSets, TLC

\* ------------------------------------------------------------ bounds
MaxRuns == 2        \* lando invocations (processes) on the same app
MaxInits == 2       \* init events (pre-init .. post-init) in one process
MaxAttempts == 2    \* attempts of one phase-1 probe under Promise.retry
MaxClock == 2       \* epoch seconds the clock may reach
MaxRefreshes == 3   \* post-pull / post-push events of one behaviour
MaxProcessRefreshes == 2 \* post-pull / post-push events after a start, in one process

\* ------------------------------------------------------------ topology
\* utils.getNonApplicationServices(app.config.services)
Services == {"db", "cache"}
\* utils.getApplicationServices(app.config.services), in array order
AppserverSeq == <<"web", "api">>
Appservers == {AppserverSeq[i] : i \in 1..Len(AppserverSeq)}
\* the platform services a config may declare that lando does not support
Unsupportable == {"search"}
\* appserver.platformsh.relationships: relationship name -> backing service
Relationships(a) ==
  IF a = "web" THEN [database |-> "db", rediscache |-> "cache"]
  ELSE [database |-> "db"]
\* addresses docker inspect may report
IPs == {1, 2}
\* what /helpers/psh-open.sh may print on a backing service
Outputs == {"json", "garbage"}

\* the commands whose post-event refreshes the credentials (line 110)
Commands == {"pull", "push"}
\* the machine tokens a user may answer with, and the account of each at the
\* remote API (me.mail)
Tokens == {"T1", "T2", "T3"}
Emails == {"a@x.com", "b@x.com"}
Owner(t) == IF t = "T3" THEN "b@x.com" ELSE "a@x.com"
\* answers.auth is not set
NoAuth == "noauth"

\* an absent value (undefined) and a present one
None == <<>>
Some(v) == <<v>>

VARIABLES
  applications,   \* app.platformsh.config.applications as loaded (line 32)
  closestFile,    \* what pshconf.findClosestApplication() answers
  declared,       \* names of the declared platform services lando lacks
  pc,             \* position of the process in the lifecycle
  containers,     \* whether this run has started the app's containers
  run,            \* number of the lando invocation
  nInit,          \* init events of this process so far
  reg,            \* number of handlers registered per event and priority
  stage,          \* position in the priority order of the post-start handlers
  h,              \* index of the handler of the current event being run
  platformsh,     \* app.platformsh: what pre-init derived
  openMerge,      \* serviceConfig.platformsh.openMerge per backing service
  scan,           \* app.engine.scan per backing service
  p1,             \* phase-1 probe per backing service
  serviceData,    \* _.fromPairs(data) handed to phase 2
  mi,             \* index of the appserver the phase-2 mapper is at
  p2,             \* phase-2 probe per application server
  cache,          \* lando.cache: the persistent key-value store
  files,          \* the run-config files on disk
  fileWrites,     \* the writes of the run-config files so far
  errors,         \* what was logged through log.error
  thrown,         \* the error that ended the lifecycle, if any
  warnings,       \* app.addWarning calls of this process
  inflight,       \* post-pull / post-push refresh waiting on getAccountInfo
  now,            \* _.now() / 1000
  loadedTokens,   \* app.platformsh.tokens, read when the plugin loads (line 37)
  finished,       \* number of post-pull / post-push handlers that have ended
  last,           \* how the last of them ended
  done,           \* per command, the record of its last successful refresh
  latest,         \* per identity, the record of its last successful refresh
  lhs,            \* a token list handed to utils.sortTokens
  rhs,            \* the list merged into it
  merged,         \* what utils.sortTokens returned for them, if it was called
  count,          \* how often this start has begun each of its actions
  keyWriters,     \* per cache key, the concurrently running tasks that wrote it
  sharedKeys,     \* the cache keys two concurrently running tasks have written
  prev,           \* the live facts and payloads of the previous run, if it completed
  foreign         \* the identities whose record another application wrote last

vars == <<applications, closestFile, declared, pc, containers, run, nInit,
          reg, stage, h, platformsh, openMerge, scan, p1, serviceData, mi, p2, cache, files,
          fileWrites, errors, thrown, warnings, inflight, now, loadedTokens,
          finished, last, done, latest, lhs, rhs, merged,
          count, keyWriters, sharedKeys, prev, foreign>>

\* the arguments and the result of a merge of two token lists
mergeVars == <<lhs, rhs, merged>>
\* what no handler changes
configVars == <<applications, closestFile, declared, mergeVars>>
\* what only the engine's start and a new process change
engineVars == <<containers, prev>>
historyVars == <<finished, last, done, latest, foreign>>
refreshVars == <<inflight, now, loadedTokens, historyVars>>
openVars == <<openMerge, scan, p1, serviceData, mi, p2>>

\* ------------------------------------------------------------ the cache
\* lando.cache.get of a key nobody set is undefined
EmptyCache ==
  [tokens |-> None, meta |-> None, lock |-> None,
   open |-> [a \in Appservers |-> None]]

\* the open cache of another appserver than the one asked for
OpenCacheOther(a) == cache.open[CHOOSE b \in Appservers : b # a]

\* `${app.name}.${appserver.name}.open.cache`
OpenCache(a) == cache.open[a]

\* ------------------------------------------------------------ the process
\* module.exports: what the plugin holds in memory once it is loaded
FreshPlatformsh ==
  [routes |-> FALSE, applications |-> None, closestApp |-> None,
   lookedUp |-> FALSE, closestOpenCache |-> None, relationships |-> None,
   services |-> FALSE, runConfig |-> None]

NoHandlers == [preStart |-> 0, live |-> 0, open |-> 0, warn |-> 0]

IdleP1 == [s \in Services |-> [st |-> "idle", attempts |-> 0, res |-> None]]
IdleP2 == [a \in Appservers |-> [st |-> "idle", payload |-> None]]
IdleScan == [s \in Services |-> "idle"]
NoMerge == [s \in Services |-> None]

\* a handler threw or returned a rejected promise: the emit is rejected and no
\* later handler of the lifecycle runs
Rejected(err) ==
  /\ pc' = "aborted"
  /\ thrown' = err

\* the actions of a start, none begun yet
NoCount ==
  [scan |-> [s \in Services |-> 0], probe1 |-> [s \in Services |-> 0],
   failed1 |-> [s \in Services |-> 0], probe2 |-> [a \in Appservers |-> 0],
   write |-> 0, check |-> 0]
\* the persisted cache keys: the token list, the app's metadata, and one open
\* cache per appserver (named by the appserver)
TokenKey == "platformsh.tokens"
MetaKey == "meta.cache"
Keys == {TokenKey, MetaKey} \cup Appservers
NoWriters == [k \in Keys |-> {}]
\* the keys that two of their writers share
Shared(writers) == {k \in Keys : Cardinality(writers[k]) >= 2}

Init ==
  /\ applications \in {{}, Appservers}
  /\ closestFile \in Appservers \cup {"nofile"}
  /\ declared \in SUBSET Unsupportable
  /\ pc = "new"
  /\ containers = FALSE
  /\ run = 1
  /\ nInit = 0
  /\ reg = NoHandlers
  /\ stage = 1
  /\ h = 1
  /\ platformsh = FreshPlatformsh
  /\ openMerge = NoMerge
  /\ scan = IdleScan
  /\ p1 = IdleP1
  /\ serviceData = None
  /\ mi = 1
  /\ p2 = IdleP2
  /\ cache = EmptyCache
  /\ files = None
  /\ fileWrites = {}
  /\ errors = {}
  /\ thrown = "none"
  /\ warnings = 0
  /\ inflight = [c \in Commands |-> None]
  /\ now = 1
  /\ loadedTokens = None
  /\ finished = 0
  /\ last = "none"
  /\ done = [c \in Commands |-> None]
  /\ latest = [e \in Emails |-> None]
  /\ count = NoCount
  /\ keyWriters = NoWriters
  /\ sharedKeys = {}
  /\ prev = None
  /\ foreign = {}
  /\ lhs = None
  /\ rhs = None
  /\ merged = None

\* ------------------------------------------------------------ pre-init
\* pre-init, lines 47-64: the applications check, then the registration of the
\* post-start handler of priority 9
PreInitCheck ==
  /\ pc \in {"new", "ready"}
  /\ nInit < MaxInits
  /\ errors' = IF applications = {} THEN errors \cup {"noapps"} ELSE errors
  /\ reg' = [reg EXCEPT !.warn = @ + 1]
  /\ pc' = "pi_routes"
  /\ UNCHANGED <<configVars, count, keyWriters, sharedKeys, engineVars, run,
                 nInit, stage, h, platformsh, openVars, cache, files,
                 fileWrites, thrown, warnings, refreshVars>>

\* pshconf.parseRoutes
PreInitRoutes ==
  /\ pc = "pi_routes"
  /\ platformsh' = [platformsh EXCEPT !.routes = TRUE]
  /\ pc' = "pi_apps"
  /\ UNCHANGED <<configVars, count, keyWriters, sharedKeys, engineVars, run,
                 nInit, reg, stage, h, openVars, cache, files, fileWrites,
                 errors, thrown, warnings, refreshVars>>

\* pshconf.parseApps
PreInitApps ==
  /\ pc = "pi_apps"
  /\ platformsh' = [platformsh EXCEPT !.applications = Some(applications)]
  /\ pc' = "pi_closest"
  /\ UNCHANGED <<configVars, count, keyWriters, sharedKeys, engineVars, run,
                 nInit, reg, stage, h, openVars, cache, files, fileWrites,
                 errors, thrown, warnings, refreshVars>>

\* _.find(app.platformsh.applications, {configFile: findClosestApplication()})
ClosestApp == IF closestFile \in applications THEN Some(closestFile) ELSE None

\* the closest application and its open cache: reading .name of undefined
\* throws a TypeError before the cache is asked
PreInitClosest ==
  /\ pc = "pi_closest"
  /\ IF ClosestApp = None
       THEN /\ platformsh' = [platformsh EXCEPT !.closestApp = None]
            /\ Rejected("TypeError")
       ELSE /\ platformsh' = [platformsh EXCEPT
                 !.closestApp = ClosestApp,
                 !.lookedUp = TRUE,
                 !.closestOpenCache = OpenCache(ClosestApp[1])]
            /\ pc' = "pi_rels"
            /\ UNCHANGED thrown
  /\ UNCHANGED <<configVars, count, keyWriters, sharedKeys, engineVars, run,
                 nInit, reg, stage, h, openVars, cache, files, fileWrites,
                 errors, warnings, refreshVars>>

\* pshconf.parseRelationships(applications, closestOpenCache)
parseRelationships(apps, seed) == [apps |-> apps, seed |-> seed]

PreInitRelationships ==
  /\ pc = "pi_rels"
  /\ platformsh' = [platformsh EXCEPT !.relationships =
       Some(parseRelationships(applications, platformsh.closestOpenCache))]
  /\ pc' = "pi_services"
  /\ UNCHANGED <<configVars, count, keyWriters, sharedKeys, engineVars, run,
                 nInit, reg, stage, h, openVars, cache, files, fileWrites,
                 errors, thrown, warnings, refreshVars>>

\* pshconf.parseServices(platformConfig.services, relationships)
PreInitServices ==
  /\ pc = "pi_services"
  /\ platformsh' = [platformsh EXCEPT !.services = TRUE]
  /\ pc' = "pi_runconf"
  /\ UNCHANGED <<configVars, count, keyWriters, sharedKeys, engineVars, run,
                 nInit, reg, stage, h, openVars, cache, files, fileWrites,
                 errors, thrown, warnings, refreshVars>>

\* runconf.buildRunConfig(app): the files derive from the relationships
buildRunConfig(rels) == [data |-> rels]

PreInitRunConfig ==
  /\ pc = "pi_runconf"
  /\ platformsh' = [platformsh EXCEPT !.runConfig =
       Some(buildRunConfig(platformsh.relationships))]
  /\ pc' = "pi_done"
  /\ UNCHANGED <<configVars, count, keyWriters, sharedKeys, engineVars, run,
                 nInit, reg, stage, h, openVars, cache, files, fileWrites,
                 errors, thrown, warnings, refreshVars>>

\* ------------------------------------------------------------ post-init
\* the three post-init handlers, in registration order: each registers one
\* handler of the start
PostInit ==
  /\ pc = "pi_done"
  /\ reg' = [reg EXCEPT !.preStart = @ + 1, !.live = @ + 1, !.open = @ + 1]
  /\ nInit' = nInit + 1
  /\ pc' = "ready"
  /\ UNCHANGED <<configVars, count, keyWriters, sharedKeys, engineVars, run,
                 stage, h, platformsh, openVars, cache, files, fileWrites,
                 errors, thrown, warnings, refreshVars>>

\* ------------------------------------------------------------ pre-start
\* a dump of the files on every start
AlwaysWriteRunConfig == TRUE

\* line 136: the files are dumped only while the build lock is not in the cache
MayWriteRunConfig == cache.lock = None

\* pre-start handler of priority 1, lines 135-142; the _.forEach writes every
\* file of app.platformsh.runConfig
EmitPreStart ==
  /\ pc = "ready"
  /\ nInit >= 1
  /\ pc' = "prestart"
  /\ h' = 1
  /\ UNCHANGED <<configVars, count, keyWriters, sharedKeys, engineVars, run,
                 nInit, reg, stage, platformsh, openVars, cache, files,
                 fileWrites, errors, thrown, warnings, refreshVars>>

PreStartHandler ==
  /\ pc = "prestart"
  /\ h <= reg.preStart
  /\ IF MayWriteRunConfig
       THEN /\ files' = platformsh.runConfig
            /\ fileWrites' = fileWrites \cup
                 {[run |-> run, marker |-> cache.lock,
                   content |-> platformsh.runConfig]}
       ELSE UNCHANGED <<files, fileWrites>>
  /\ h' = h + 1
  /\ count' = [count EXCEPT !.write = @ + 1]
  /\ UNCHANGED <<configVars, keyWriters, sharedKeys, engineVars, pc, run, nInit,
                 reg, stage, platformsh, openVars, cache, errors, thrown,
                 warnings, refreshVars>>

\* the rest of a start that is lando's own: the build of the first start leaves
\* the persisted marker (app.preLockfile), the containers are started, and the
\* post-start event is emitted
EngineStart ==
  /\ pc = "prestart"
  /\ h > reg.preStart
  /\ cache' = [cache EXCEPT !.lock = Some("configured")]
  /\ containers' = TRUE
  /\ pc' = "poststart"
  /\ stage' = 1
  /\ h' = 1
  /\ UNCHANGED <<configVars, count, keyWriters, sharedKeys, prev, run, nInit,
                 reg, platformsh, openVars, files, fileWrites, errors, thrown,
                 warnings, refreshVars>>

\* ------------------------------------------------------------ post-start
\* the priorities the three post-start handlers are registered with
LiveFactsPriority == 1
\* an OPEN handler registered ahead of the live-fact handler
OpenPriorityFirst == LiveFactsPriority - 1
OpenPriority == 8
WarnPriority == 9

Kinds == {"warn", "live", "open"}
Priority(k) ==
  CASE k = "live" -> LiveFactsPriority
    [] k = "open" -> OpenPriority
    [] k = "warn" -> WarnPriority
\* first registration: warn in pre-init, then live and open in post-init
RegOrder(k) == CASE k = "warn" -> 1 [] k = "live" -> 2 [] k = "open" -> 3

\* the emitter runs the handlers of an event sorted by priority, equal
\* priorities in registration order, one after the other
Rank(k) ==
  1 + Cardinality({j \in Kinds :
        \/ Priority(j) < Priority(k)
        \/ Priority(j) = Priority(k) /\ RegOrder(j) < RegOrder(k)})
KindAt(i) == CHOOSE k \in Kinds : Rank(k) = i
\* the handler the post-start emit is at, if any is left
Current == IF pc = "poststart" /\ stage <= 3 THEN KindAt(stage) ELSE "none"

\* all handlers of one priority have run: on to the next priority
NextPriority ==
  /\ pc = "poststart"
  /\ stage <= 3
  /\ h > reg[KindAt(stage)]
  /\ stage' = stage + 1
  /\ h' = 1
  /\ UNCHANGED <<configVars, count, keyWriters, sharedKeys, engineVars, pc, run,
                 nInit, reg, platformsh, openVars, cache, files, fileWrites,
                 errors, thrown, warnings, refreshVars>>

\* every post-start handler has resolved: the start is complete
StartDone ==
  /\ pc = "poststart"
  /\ stage > 3
  /\ pc' = "started"
  /\ UNCHANGED <<configVars, count, keyWriters, sharedKeys, engineVars, run,
                 nInit, reg, stage, h, platformsh, openVars, cache, files,
                 fileWrites, errors, thrown, warnings, refreshVars>>

\* ------------------------------------------------------------ the event loop
\* a mapper called for one appserver after the other, as Promise.mapSeries does
MapperSeries(i) == IF i = 1 THEN TRUE ELSE p2[AppserverSeq[i - 1]].st = "ok"

\* line 225: Promise.map has no concurrency option, so the mapper is called for
\* every appserver in one synchronous loop
MapperMayStart(i) == TRUE

\* synchronous code of the phase-2 mapper loop is still to run
SyncPending ==
  /\ pc = "p2_map"
  /\ mi <= Len(AppserverSeq)
  /\ \/ p2[AppserverSeq[mi]].st = "cached"
     \/ p2[AppserverSeq[mi]].st = "idle" /\ MapperMayStart(mi)

\* a completion callback runs only between two turns of synchronous code
EventLoopIdle ==
  \/ pc \in {"live_wait", "p1_wait", "p2_wait", "aborted"}
  \/ pc = "p2_map" /\ ~SyncPending

\* ------------------------------------------------------------ live facts
\* post-start handler of priority 1, lines 152-153: one scan per backing service
LiveFactsStart ==
  /\ Current = "live"
  /\ h <= reg.live
  /\ scan' = [s \in Services |-> "running"]
  /\ pc' = "live_wait"
  /\ count' = [count EXCEPT !.scan = [s \in Services |-> @[s] + 1]]
  /\ UNCHANGED <<configVars, keyWriters, sharedKeys, engineVars, run, nInit,
                 reg, stage, h, platformsh, openMerge, p1, serviceData, mi, p2,
                 cache, files, fileWrites, errors, thrown, warnings,
                 refreshVars>>

\* lines 158-166: the merge descriptor of a service, from its inspect data
OpenMergeOf(s, ip) ==
  [hostname |-> <<"app", s, "service._.lndo.site">>, ip |-> ip, service |-> s,
   type |-> <<s, "type">>]

\* a scan answers: lines 153-167
ScanOk(s, ip) ==
  /\ scan[s] = "running"
  /\ EventLoopIdle
  /\ openMerge' = [openMerge EXCEPT ![s] = Some(OpenMergeOf(s, ip))]
  /\ scan' = [scan EXCEPT ![s] = "done"]
  /\ UNCHANGED <<configVars, count, keyWriters, sharedKeys, engineVars, pc, run,
                 nInit, reg, stage, h, platformsh, p1, serviceData, mi, p2,
                 cache, files, fileWrites, errors, thrown, warnings,
                 refreshVars>>

\* a scan fails: the promise of the map, and with it the handler, is rejected
ScanFail(s) ==
  /\ scan[s] = "running"
  /\ EventLoopIdle
  /\ scan' = [scan EXCEPT ![s] = "failed"]
  /\ IF pc = "live_wait" THEN Rejected("ScanError") ELSE UNCHANGED <<pc, thrown>>
  /\ UNCHANGED <<configVars, count, keyWriters, sharedKeys, engineVars, run,
                 nInit, reg, stage, h, platformsh, openMerge, p1, serviceData,
                 mi, p2, cache, files, fileWrites, errors, warnings,
                 refreshVars>>

\* every scan has answered: the handler's promise resolves
LiveFactsDone ==
  /\ pc = "live_wait"
  /\ \A s \in Services : scan[s] = "done"
  /\ pc' = "poststart"
  /\ h' = h + 1
  /\ UNCHANGED <<configVars, count, keyWriters, sharedKeys, engineVars, run,
                 nInit, reg, stage, platformsh, openVars, cache, files,
                 fileWrites, errors, thrown, warnings, refreshVars>>

\* ------------------------------------------------------------ OPEN, phase 1
\* post-start handler of priority 8, lines 188-202: Promise.map calls the mapper
\* for every backing service, each under Promise.retry
Phase1Start ==
  /\ Current = "open"
  /\ h <= reg.open
  /\ p1' = [s \in Services |-> [st |-> "running", attempts |-> 1, res |-> None]]
  /\ p2' = IdleP2
  /\ serviceData' = None
  /\ mi' = 1
  /\ pc' = "p1_wait"
  /\ count' = [count EXCEPT !.probe1 = [s \in Services |-> @[s] + 1],
                          !.failed1 = [s \in Services |-> 0]]
  /\ keyWriters' = [k \in Keys |-> IF k \in Appservers THEN {} ELSE keyWriters[k]]
  /\ UNCHANGED <<configVars, sharedKeys, engineVars, run, nInit, reg, stage, h,
                 platformsh, openMerge, scan, cache, files, fileWrites, errors,
                 thrown, warnings, refreshVars>>

\* a retry that never gives up
RetryUnbounded(attempts) == TRUE

\* Promise.retry: a failed attempt is repeated while attempts are left
RetryAgain(attempts) == attempts < MaxAttempts

\* an attempt of a phase-1 probe fails
P1AttemptFail(s) ==
  /\ p1[s].st = "running"
  /\ EventLoopIdle
  /\ IF RetryAgain(p1[s].attempts)
       THEN /\ p1' = [p1 EXCEPT ![s].attempts = @ + 1]
            /\ UNCHANGED <<pc, thrown>>
       ELSE /\ p1' = [p1 EXCEPT ![s].st = "rejected"]
            /\ IF pc = "p1_wait" THEN Rejected("ProbeError")
                                 ELSE UNCHANGED <<pc, thrown>>
  /\ count' = [count EXCEPT !.failed1[s] = @ + 1]
  /\ UNCHANGED <<configVars, keyWriters, sharedKeys, engineVars, run, nInit,
                 reg, stage, h, platformsh, openMerge, scan, serviceData, mi,
                 p2, cache, files, fileWrites, errors, warnings, refreshVars>>

\* open.parseOpenData throws on what is no JSON
Parses(out) == out = "json"
\* the endpoint a backing service's probe reports of itself
parseOpenData(s) ==
  [host |-> <<s, "internal">>, hostname |-> <<s, "internal">>, ip |-> 0,
   service |-> s, type |-> "probe"]
\* a merge in which the probe's own fields are kept
MergeEndpointProbeWins(endpoint, merge) == endpoint

\* line 209, _.merge(endpoint, service.platformsh.openMerge): the fields of the
\* merge descriptor replace the endpoint's; merging undefined changes nothing
MergeEndpoint(endpoint, merge) ==
  IF merge = None THEN endpoint
  ELSE [host |-> endpoint.host, hostname |-> merge[1].hostname,
        ip |-> merge[1].ip, service |-> merge[1].service,
        type |-> merge[1].type]

\* an attempt succeeds, lines 204-217: the output is parsed and merged, or the
\* parse error is logged and the mapper returns undefined
P1AttemptOk(s, out) ==
  /\ p1[s].st = "running"
  /\ EventLoopIdle
  /\ IF Parses(out)
       THEN /\ p1' = [p1 EXCEPT ![s].st = "parsed",
                 ![s].res = Some(MergeEndpoint(parseOpenData(s), openMerge[s]))]
            /\ UNCHANGED errors
       ELSE /\ p1' = [p1 EXCEPT ![s].st = "unparsed"]
            /\ errors' = errors \cup {"parse"}
  /\ UNCHANGED <<configVars, count, keyWriters, sharedKeys, engineVars, pc, run,
                 nInit, reg, stage, h, platformsh, openMerge, scan, serviceData,
                 mi, p2, cache, files, fileWrites, thrown, warnings,
                 refreshVars>>

\* a barrier that opens at the first fulfilled mapper promise
Phase1BarrierAny == \E s \in Services : p1[s].st \in {"parsed", "unparsed"}

\* line 219: the .then of Promise.map runs once every mapper promise is fulfilled
Phase1Barrier == \A s \in Services : p1[s].st \in {"parsed", "unparsed"}

\* line 221, _.fromPairs(data): lodash reads pair[0] of every element, which
\* throws a TypeError on an undefined one
FromPairsThrows(results) == \E s \in Services : results[s].st = "unparsed"
fromPairs(results) ==
  [s \in {t \in Services : results[t].st = "parsed"} |-> results[s].res[1]]

\* lines 219-222: the collected data becomes the mapping handed to phase 2
Phase1Collect ==
  /\ pc = "p1_wait"
  /\ Phase1Barrier
  /\ IF FromPairsThrows(p1)
       THEN /\ Rejected("TypeError")
            /\ UNCHANGED <<serviceData, mi>>
       ELSE /\ serviceData' = Some(fromPairs(p1))
            /\ mi' = 1
            /\ pc' = "p2_map"
            /\ UNCHANGED thrown
  /\ UNCHANGED <<configVars, count, keyWriters, sharedKeys, engineVars, run,
                 nInit, reg, stage, h, platformsh, openMerge, scan, p1, p2,
                 cache, files, fileWrites, errors, warnings, refreshVars>>

\* ------------------------------------------------------------ OPEN, phase 2
\* open.generateOpenPayload(serviceData, relationships): per relationship name
\* the endpoints of the service it is bound to
generateOpenPayload(data, rels) ==
  [r \in DOMAIN rels |->
     IF rels[r] \in DOMAIN data THEN <<data[rels[r]]>> ELSE <<>>]

\* a mapper that runs the probe without the cache write
CacheSetOpenSkipped(a, payload) == cache

\* every opening writes the open cache of the first appserver
OpenKeyFirst(a) == AppserverSeq[1]
\* line 228: the key `${app.name}.${appserver.name}.open.cache`
OpenKey(a) == a

\* line 231: lando.cache.set(openCache, openPayload, {persist: true})
CacheSetOpen(a, payload) == [cache EXCEPT !.open[OpenKey(a)] = Some(payload)]

\* the mapper of line 225 up to the cache write, lines 226-232
MapperCache ==
  /\ pc = "p2_map"
  /\ mi <= Len(AppserverSeq)
  /\ p2[AppserverSeq[mi]].st = "idle"
  /\ MapperMayStart(mi)
  /\ LET a == AppserverSeq[mi]
         payload == generateOpenPayload(serviceData[1], Relationships(a))
     IN /\ cache' = CacheSetOpen(a, payload)
        /\ p2' = [p2 EXCEPT ![a] = [st |-> "cached", payload |-> Some(payload)]]
  /\ LET kw == [keyWriters EXCEPT ![OpenKey(AppserverSeq[mi])] = @ \cup {AppserverSeq[mi]}]
     IN /\ keyWriters' = kw
        /\ sharedKeys' = sharedKeys \cup Shared(kw)
  /\ UNCHANGED <<configVars, count, engineVars, pc, run, nInit, reg, stage, h,
                 platformsh, openMerge, scan, p1, serviceData, mi, files,
                 fileWrites, errors, thrown, warnings, refreshVars>>

\* the mapper's lando.engine.run, lines 235-247: the probe is started
MapperRun ==
  /\ pc = "p2_map"
  /\ mi <= Len(AppserverSeq)
  /\ p2[AppserverSeq[mi]].st = "cached"
  /\ p2' = [p2 EXCEPT ![AppserverSeq[mi]].st = "running"]
  /\ mi' = mi + 1
  /\ pc' = IF mi = Len(AppserverSeq) THEN "p2_wait" ELSE "p2_map"
  /\ count' = [count EXCEPT !.probe2[AppserverSeq[mi]] = @ + 1]
  /\ UNCHANGED <<configVars, keyWriters, sharedKeys, engineVars, run, nInit,
                 reg, stage, h, platformsh, openMerge, scan, p1, serviceData,
                 cache, files, fileWrites, errors, thrown, warnings,
                 refreshVars>>

\* a phase-2 probe succeeds
P2Ok(a) ==
  /\ p2[a].st = "running"
  /\ EventLoopIdle
  /\ p2' = [p2 EXCEPT ![a].st = "ok"]
  /\ UNCHANGED <<configVars, count, keyWriters, sharedKeys, engineVars, pc, run,
                 nInit, reg, stage, h, platformsh, openMerge, scan, p1,
                 serviceData, mi, cache, files, fileWrites, errors, thrown,
                 warnings, refreshVars>>

\* a phase-2 probe fails: the promise of the map, and the handler, is rejected
P2Fail(a) ==
  /\ p2[a].st = "running"
  /\ EventLoopIdle
  /\ p2' = [p2 EXCEPT ![a].st = "failed"]
  /\ IF pc \in {"p2_map", "p2_wait"} THEN Rejected("ProbeExecutionError")
                                     ELSE UNCHANGED <<pc, thrown>>
  /\ UNCHANGED <<configVars, count, keyWriters, sharedKeys, engineVars, run,
                 nInit, reg, stage, h, platformsh, openMerge, scan, p1,
                 serviceData, mi, cache, files, fileWrites, errors, warnings,
                 refreshVars>>

\* every appserver is open: the handler's promise resolves
Phase2Done ==
  /\ pc = "p2_wait"
  /\ \A a \in Appservers : p2[a].st = "ok"
  /\ pc' = "poststart"
  /\ h' = h + 1
  /\ UNCHANGED <<configVars, count, keyWriters, sharedKeys, engineVars, run,
                 nInit, reg, stage, platformsh, openVars, cache, files,
                 fileWrites, errors, thrown, warnings, refreshVars>>

\* ------------------------------------------------------------ warnings
\* post-start handler of priority 9, lines 57-64
WarnHandler ==
  /\ Current = "warn"
  /\ h <= reg.warn
  /\ warnings' = IF declared # {} THEN warnings + 1 ELSE warnings
  /\ h' = h + 1
  /\ count' = [count EXCEPT !.check = @ + 1]
  /\ UNCHANGED <<configVars, keyWriters, sharedKeys, engineVars, pc, run, nInit,
                 reg, stage, platformsh, openVars, cache, files, fileWrites,
                 errors, thrown, refreshVars>>

\* ------------------------------------------------------------ the next run
\* the process ends and lando is invoked again on the same app: the plugin is
\* loaded anew (lines 17-38) and only the cache and the disk are kept
NewRun ==
  /\ pc \in {"started", "aborted"}
  /\ run < MaxRuns
  /\ run' = run + 1
  /\ pc' = "new"
  /\ nInit' = 0
  /\ reg' = NoHandlers
  /\ stage' = 1
  /\ h' = 1
  /\ platformsh' = FreshPlatformsh
  /\ openMerge' = NoMerge
  /\ scan' = IdleScan
  /\ p1' = IdleP1
  /\ serviceData' = None
  /\ mi' = 1
  /\ p2' = IdleP2
  /\ errors' = {}
  /\ thrown' = "none"
  /\ warnings' = 0
  /\ loadedTokens' = cache.tokens
  /\ containers' = FALSE
  /\ count' = NoCount
  /\ keyWriters' = NoWriters
  /\ prev' = IF pc = "started" /\ \A a \in Appservers : p2[a].st = "ok"
               THEN Some([openMerge |-> openMerge,
                          payload |-> [a \in Appservers |-> p2[a].payload]])
               ELSE None
  /\ UNCHANGED <<configVars, sharedKeys, cache, files, fileWrites, inflight,
                 now, historyVars>>

Next ==
  \/ PreInitCheck
  \/ PreInitRoutes
  \/ PreInitApps
  \/ PreInitClosest
  \/ PreInitRelationships
  \/ PreInitServices
  \/ PreInitRunConfig
  \/ PostInit
  \/ EmitPreStart
  \/ PreStartHandler
  \/ EngineStart
  \/ NextPriority
  \/ StartDone
  \/ LiveFactsStart
  \/ \E s \in Services, ip \in IPs : ScanOk(s, ip)
  \/ \E s \in Services : ScanFail(s)
  \/ LiveFactsDone
  \/ Phase1Start
  \/ \E s \in Services : P1AttemptFail(s)
  \/ \E s \in Services, out \in Outputs : P1AttemptOk(s, out)
  \/ Phase1Collect
  \/ MapperCache
  \/ MapperRun
  \/ \E a \in Appservers : P2Ok(a)
  \/ \E a \in Appservers : P2Fail(a)
  \/ Phase2Done
  \/ WarnHandler
  \/ NewRun

Spec == Init /\ [][Next]_vars

\* ------------------------------------------------------------ credentials
Other(c) == IF c = "pull" THEN "push" ELSE "pull"

\* a merge that keeps every record of both lists
sortTokensConcat(existing, incoming) == existing \o incoming

\* utils.sortTokens(existing, incoming): the lists are concatenated, one record
\* is kept per identity, the newest (of two of one date the later in the
\* concatenation), and the result is sorted by date, newest first
KeptIndexes(all) ==
  {i \in 1..Len(all) :
     ~ \E j \in 1..Len(all) :
         /\ j # i
         /\ all[j].email = all[i].email
         /\ \/ all[j].date > all[i].date
            \/ all[j].date = all[i].date /\ j > i}
RECURSIVE NewestFirst(_, _)
NewestFirst(all, idx) ==
  IF idx = {} THEN <<>>
  ELSE LET best == CHOOSE i \in idx : \A j \in idx :
                     \/ all[i].date > all[j].date
                     \/ all[i].date = all[j].date /\ i <= j
       IN <<all[best]>> \o NewestFirst(all, idx \ {best})
sortTokens(existing, incoming) ==
  NewestFirst(existing \o incoming, KeptIndexes(existing \o incoming))

\* line 118: the record of a validated token
CredentialRecord(auth, mail) == [token |-> auth, email |-> mail, date |-> now]

\* the list the plugin read when it was loaded (line 37), used in place of a
\* fresh read
TokensReadAtLoad == loadedTokens

\* line 120: the token list is read from the cache when the answer arrives
TokensRead == cache.tokens

\* the record appended without utils.sortTokens
TokensAppended(tokens, rec) == Append(tokens, rec)

\* line 121: the list written back
TokensWritten(tokens, rec) == sortTokens(tokens, <<rec>>)

\* a merge in which the stored metadata replace the record's keys
MergeMetaStoredWins(meta, rec) == IF meta = None THEN Some(rec) ELSE meta

\* line 124, _.merge({}, metaData, cache): the record's keys replace the stored
MergeMeta(meta, rec) ==
  IF meta = None THEN Some(rec)
  ELSE Some([meta[1] EXCEPT !.token = rec.token, !.email = rec.email,
                            !.date = rec.date])

\* a handler that stores the token although the API rejected it
RejectedCacheStored(auth) ==
  [cache EXCEPT !.tokens = Append(@, [token |-> auth, email |-> Owner(auth),
                                      date |-> now])]

\* lines 116-125 hang on .then alone: a rejected getAccountInfo runs none of it
RejectedCache(auth) == cache

\* post-pull or post-push is emitted, lines 111-115: without answers.auth the
\* handler returns at once, with it the token is sent to the API
PostCommand(c, auth) ==
  /\ inflight[c] = None
  /\ finished + Cardinality({d \in Commands : inflight[d] # None}) < MaxRefreshes
  /\ IF auth = NoAuth
       THEN /\ finished' = finished + 1
            /\ last' = "noauth"
            /\ UNCHANGED inflight
       ELSE /\ inflight' = [inflight EXCEPT ![c] = Some(auth)]
            /\ UNCHANGED <<finished, last>>
  /\ UNCHANGED <<configVars, count, keyWriters, sharedKeys, engineVars, pc, run,
                 nInit, reg, stage, h, platformsh, openVars, cache, files,
                 fileWrites, errors, thrown, warnings, now, loadedTokens, done,
                 latest, foreign>>

\* getAccountInfo answers, lines 116-125: one synchronous callback reads the
\* token list, writes it back merged, and updates the app's metadata
AccountInfoOk(c) ==
  /\ inflight[c] # None
  /\ LET rec == CredentialRecord(inflight[c][1], Owner(inflight[c][1]))
     IN /\ cache' = [cache EXCEPT !.tokens = TokensWritten(TokensRead, rec),
                                  !.meta = MergeMeta(cache.meta, rec)]
        /\ done' = [done EXCEPT ![c] =
             Some([rec |-> rec, overlapped |-> inflight[Other(c)] # None])]
        /\ latest' = [latest EXCEPT ![rec.email] = Some(rec)]
        /\ foreign' = foreign \ {rec.email}
  /\ finished' = finished + 1
  /\ last' = "ok"
  /\ inflight' = [inflight EXCEPT ![c] = None]
  /\ LET kw == [keyWriters EXCEPT ![TokenKey] = @ \cup {c}, ![MetaKey] = @ \cup {c}]
     IN /\ sharedKeys' = sharedKeys \cup Shared(kw)
        /\ keyWriters' = IF inflight[Other(c)] = None THEN NoWriters ELSE kw
  /\ UNCHANGED <<configVars, count, engineVars, pc, run, nInit, reg, stage, h,
                 platformsh, openVars, files, fileWrites, errors, thrown,
                 warnings, now, loadedTokens>>

\* getAccountInfo is rejected: the API does not accept the token
AccountInfoRejected(c) ==
  /\ inflight[c] # None
  /\ cache' = RejectedCache(inflight[c][1])
  /\ finished' = finished + 1
  /\ last' = "rejected"
  /\ inflight' = [inflight EXCEPT ![c] = None]
  /\ keyWriters' = IF inflight[Other(c)] = None THEN NoWriters ELSE keyWriters
  /\ UNCHANGED <<configVars, count, sharedKeys, engineVars, pc, run, nInit, reg,
                 stage, h, platformsh, openVars, files, fileWrites, errors,
                 thrown, warnings, now, loadedTokens, done, latest, foreign>>

\* a second passes
Tick ==
  /\ now < MaxClock
  /\ now' = now + 1
  /\ UNCHANGED <<configVars, count, keyWriters, sharedKeys, engineVars, pc, run,
                 nInit, reg, stage, h, platformsh, openVars, cache, files,
                 fileWrites, errors, thrown, warnings, inflight, loadedTokens,
                 historyVars>>

\* the credential refreshes of one process on a loaded app
InitRefresh ==
  /\ Init
  /\ applications = Appservers
  /\ closestFile = "web"
  /\ declared = {}

NextRefresh ==
  \/ \E c \in Commands, auth \in Tokens \cup {NoAuth} : PostCommand(c, auth)
  \/ \E c \in Commands : AccountInfoOk(c)
  \/ \E c \in Commands : AccountInfoRejected(c)
  \/ Tick

SpecRefresh == InitRefresh /\ [][NextRefresh]_vars

\* ------------------------------------------------------------ the merge alone
\* the records a token list may hold
Records ==
  {[token |-> t, email |-> Owner(t), date |-> d] : t \in Tokens, d \in 1..MaxClock}
\* a token list as the cache holds it: one record per identity, newest first
IsTokenList(l) ==
  /\ \A i, j \in 1..Len(l) : i # j => l[i].email # l[j].email
  /\ \A i, j \in 1..Len(l) : i < j => l[i].date >= l[j].date
TokenLists ==
  {l \in UNION {[1..n -> Records] : n \in 0..Cardinality(Emails)} :
     IsTokenList(l)}

MergeLists ==
  /\ merged = None
  /\ merged' = Some([both |-> sortTokens(lhs, rhs), self |-> sortTokens(lhs, lhs)])
  /\ UNCHANGED <<applications, closestFile, declared, lhs, rhs, engineVars,
                 count, keyWriters, sharedKeys, pc, run, nInit, reg, stage, h,
                 platformsh, openVars, cache, files, fileWrites, errors, thrown,
                 warnings, refreshVars>>

InitMerge ==
  /\ lhs \in TokenLists
  /\ rhs \in TokenLists
  /\ merged = None
  /\ applications = Appservers
  /\ closestFile = "web"
  /\ declared = {}
  /\ pc = "new"
  /\ containers = FALSE
  /\ run = 1
  /\ nInit = 0
  /\ reg = NoHandlers
  /\ stage = 1
  /\ h = 1
  /\ platformsh = FreshPlatformsh
  /\ openMerge = NoMerge
  /\ scan = IdleScan
  /\ p1 = IdleP1
  /\ serviceData = None
  /\ mi = 1
  /\ p2 = IdleP2
  /\ cache = EmptyCache
  /\ files = None
  /\ fileWrites = {}
  /\ errors = {}
  /\ thrown = "none"
  /\ warnings = 0
  /\ inflight = [c \in Commands |-> None]
  /\ now = 1
  /\ loadedTokens = None
  /\ finished = 0
  /\ last = "none"
  /\ done = [c \in Commands |-> None]
  /\ latest = [e \in Emails |-> None]
  /\ count = NoCount
  /\ keyWriters = NoWriters
  /\ sharedKeys = {}
  /\ prev = None
  /\ foreign = {}

NextMerge == MergeLists

SpecMerge == InitMerge /\ [][NextMerge]_vars

\* ------------------------------------------------------------ two apps
\* the token the user gives to the other application (answers.auth there)
OtherTokens == {"T2"}

\* another application of the same user runs the same handler to its end:
\* lines 118-121 write the one token list of all applications, lines 123-124
\* write the metadata of that other application
OtherAppRefresh(auth) ==
  /\ LET rec == CredentialRecord(auth, Owner(auth))
     IN /\ cache' = [cache EXCEPT !.tokens = TokensWritten(TokensRead, rec)]
        /\ latest' = [latest EXCEPT ![rec.email] = Some(rec)]
        /\ foreign' = foreign \cup {rec.email}
  /\ UNCHANGED <<configVars, count, keyWriters, sharedKeys, engineVars, pc, run,
                 nInit, reg, stage, h, platformsh, openVars, files, fileWrites,
                 errors, thrown, warnings, inflight, now, loadedTokens,
                 finished, last, done>>

\* a few post-pull and post-push events of the app, among refreshes of the other
NextApps ==
  \/ /\ NextRefresh
     /\ finished' <= MaxProcessRefreshes
  \/ \E auth \in OtherTokens : OtherAppRefresh(auth)

SpecApps == InitRefresh /\ [][NextApps]_vars

\* ------------------------------------------------------------ one process
\* the steps of one invocation of lando
NextProcess == Next /\ run' = run

\* one invocation of lando on an app whose files are in order: a start, and a
\* few post-pull and post-push events of the same process after it, all within
\* one second
NextKeys ==
  \/ NextProcess
  \/ /\ pc = "started"
     /\ NextRefresh
     /\ finished' <= MaxProcessRefreshes
     /\ now' = now

SpecKeys == InitRefresh /\ [][NextKeys]_vars

\* ------------------------------------------------------------ fairness
\* the engine answers every probe it was asked to run, and the event loop runs
\* every callback and every synchronous continuation that is due
ProbeAnswered(s) == P1AttemptFail(s) \/ \E out \in Outputs : P1AttemptOk(s, out)
OpenAnswered(a) == P2Ok(a) \/ P2Fail(a)
FairOpen ==
  /\ \A s \in Services : WF_vars(ProbeAnswered(s))
  /\ \A a \in Appservers : WF_vars(OpenAnswered(a))
  /\ WF_vars(Phase1Collect)
  /\ WF_vars(MapperCache)
  /\ WF_vars(MapperRun)
  /\ WF_vars(Phase2Done)

\* one invocation of lando, of any configuration, under that fairness
SpecFair == Init /\ [][NextProcess]_vars /\ FairOpen

\* ------------------------------------------------------------ properties
Range(f) == {f[x] : x \in DOMAIN f}
Finished1(s) == p1[s].st \in {"parsed", "unparsed", "rejected"}
Started2(a) == p2[a].st \in {"running", "ok", "failed"}

\* C1: no phase-2 probe is started and no open payload is computed before every
\* phase-1 probe of the start has finished, whatever the order of completion
C1_Phase2AfterBarrier ==
  (\/ serviceData # None
   \/ \E a \in Appservers : p2[a].st # "idle" \/ p2[a].payload # None)
    => \A s \in Services : Finished1(s)

\* C1 witness: phase 2 runs after a phase-1 probe that needed a second attempt
C1_Witness ==
  /\ \E a \in Appservers : p2[a].st = "running"
  /\ \E s \in Services : p1[s].attempts > 1
  /\ \A s \in Services : Finished1(s)

\* C2: when the output of one backing service cannot be parsed and no probe
\* failed, the other services' data reach phase 2, phase 2 runs for every
\* appserver and the start is not aborted
C2_ParseFailureIsolated ==
  (/\ \E s \in Services : p1[s].st = "unparsed"
   /\ \A s \in Services : p1[s].st \in {"parsed", "unparsed"}
   /\ pc \notin {"p1_wait"})
    => /\ thrown # "TypeError"
       /\ serviceData # None
       /\ \A s \in Services :
            p1[s].st = "parsed" => s \in DOMAIN serviceData[1]

\* C3: the failure of one appserver's phase-2 probe leaves every other
\* appserver's probe started, and a probe still running may complete
C3_Phase2FailureIsolated ==
  (\E a \in Appservers : p2[a].st = "failed")
    => \A b \in Appservers :
         /\ Started2(b)
         /\ p2[b].st = "running" => ENABLED P2Ok(b)

\* C3 witness: one appserver failed to open and the other was opened
C3_Witness ==
  /\ p2["web"].st = "failed"
  /\ p2["api"].st = "ok"
  /\ thrown = "ProbeExecutionError"

\* C4: whenever the phase-2 probe of an appserver has been started, the cache
\* holds under that appserver's open key the payload passed to the probe
C4_CachedBeforeProbe ==
  \A a \in Appservers :
    Started2(a) => p2[a].payload # None /\ OpenCache(a) = p2[a].payload

\* C4 witness: a probe failed and its payload is in the cache
C4_Witness ==
  \E a \in Appservers :
    /\ p2[a].st = "failed"
    /\ p2[a].payload # None
    /\ OpenCache(a) = p2[a].payload

\* C5: after a post-pull and a post-push refresh of different identities that
\* were in flight together have both completed, the token list holds the record
\* of each, unless a later refresh of the same identity replaced it
C5_NoLostCredential ==
  \A c \in Commands :
    (/\ done[c] # None
     /\ done[Other(c)] # None
     /\ done[c][1].overlapped \/ done[Other(c)][1].overlapped
     /\ done[c][1].rec.email # done[Other(c)][1].rec.email
     /\ latest[done[c][1].rec.email] = Some(done[c][1].rec))
      => done[c][1].rec \in Range(cache.tokens)

\* C5 witness: pull and push overlapped, the push completed first, and both
\* records are in the list
C5_Witness ==
  /\ finished = 2
  /\ done["pull"] # None /\ done["push"] # None
  /\ done["push"][1].overlapped /\ ~done["pull"][1].overlapped
  /\ done["pull"][1].rec.email # done["push"][1].rec.email
  /\ {done["pull"][1].rec, done["push"][1].rec} \subseteq Range(cache.tokens)

\* C6: the token list holds one record per refreshed identity, the record of the
\* most recent refresh of that identity, and is ordered by date, newest first
C6_OnePerIdentityNewestFirst ==
  LET tokens == cache.tokens IN
  /\ \A i, j \in 1..Len(tokens) : i # j => tokens[i].email # tokens[j].email
  /\ \A e \in Emails :
       IF latest[e] = None
         THEN \A i \in 1..Len(tokens) : tokens[i].email # e
         ELSE latest[e][1] \in Range(tokens)
  /\ \A i, j \in 1..Len(tokens) : i < j => tokens[i].date >= tokens[j].date

\* C6 witness: T1 then T2 for a@x.com leaves T2's record alone for a@x.com
C6_Witness ==
  /\ done["pull"] # None /\ done["pull"][1].rec.token = "T1"
  /\ done["push"] # None /\ done["push"][1].rec.token = "T2"
  /\ latest["a@x.com"] = Some(done["push"][1].rec)
  /\ cache.tokens = <<done["push"][1].rec>>

\* C7: a refresh whose token the API rejects, and a post-pull or post-push
\* without an auth answer, leave every cache key as it was
C7_RejectedLeavesCache ==
  [][(finished' = finished + 1 /\ last' \in {"rejected", "noauth"})
       => cache' = cache]_vars

\* C7 witness: a token was rejected after another had been stored
C7_Witness ==
  /\ last = "rejected"
  /\ Len(cache.tokens) = 1
  /\ cache.meta = Some(cache.tokens[1])

C9_PhaseOrder ==
  /\ platformsh.relationships # None => platformsh.applications # None
  /\ platformsh.runConfig # None => platformsh.relationships # None
  /\ containers => platformsh.runConfig # None
  /\ (\E s \in Services : scan[s] # "idle") => containers
  /\ (\E s \in Services : p1[s].st # "idle")
       => \A s \in Services : scan[s] = "done" /\ openMerge[s] # None

\* C9 witness: a phase-1 probe runs with every merge descriptor stored
C9_Witness ==
  /\ \E s \in Services : p1[s].st = "running"
  /\ \A s \in Services : scan[s] = "done" /\ openMerge[s] # None
  /\ containers

\* C10: with no application definition, or none matching the closest lookup,
\* pre-init ends in a ConfigError where it is detected, before any route or
\* application is parsed and before any later step
C10_ConfigErrorAtDetection ==
  ((applications = {} \/ ClosestApp = None) /\ pc # "new")
    => /\ pc = "aborted"
       /\ thrown = "ConfigError"
       /\ ~platformsh.routes
       /\ platformsh.applications = None
       /\ platformsh.relationships = None
       /\ platformsh.runConfig = None
       /\ fileWrites = {}
       /\ \A s \in Services : p1[s].st = "idle"

\* the records of identity e in a list
Of(l, e) == {i \in 1..Len(l) : l[i].email = e}
MaxDate(l, e) == CHOOSE d \in {l[i].date : i \in Of(l, e)} :
                   \A i \in Of(l, e) : l[i].date <= d

\* C11: merging a token list with itself gives the list back, and the merge of
\* two token lists holds, per identity of either, exactly one record, which is a
\* record of that identity of the newest date among the two lists
C11_MergeIdempotent ==
  merged # None =>
    /\ merged[1].self = lhs
    /\ \A e \in Emails :
         LET all == lhs \o rhs
             out == merged[1].both
         IN IF Of(all, e) = {} THEN Of(out, e) = {}
            ELSE /\ Cardinality(Of(out, e)) = 1
                 /\ \A i \in Of(out, e) :
                      /\ out[i] \in Range(all)
                      /\ out[i].date = MaxDate(all, e)

\* C11 witness: two lists that share an identity were merged, the older record
\* of that identity was dropped
C11_Witness ==
  /\ merged # None
  /\ lhs # <<>>
  /\ Len(lhs) = 2
  /\ \E i \in 1..Len(lhs), j \in 1..Len(rhs) :
       /\ lhs[i].email = rhs[j].email
       /\ lhs[i].date < rhs[j].date
       /\ rhs[j] \in Range(merged[1].both)
       /\ lhs[i] \notin Range(merged[1].both)

\* C12: a phase-1 probe that still fails when its retries are used up is
\* isolated: it does not reject the handler, so the start is not aborted by it
\* and phase 2 is still run
C12_ExhaustedProbeIsolated ==
  \A s \in Services :
    p1[s].st = "rejected" => ~ (pc = "aborted" /\ thrown = "ProbeError")

\* C13: only phase-1 probes are repeated: in one start the probe of an
\* appserver and the inspection of a service are attempted at most once, the
\* probe of a backing service is attempted at least once, and every attempt
\* after the first follows a failed one
C13_OnlyPhase1Retried ==
  /\ \A a \in Appservers : count.probe2[a] <= 1
  /\ \A s \in Services : count.scan[s] <= 1
  /\ \A s \in Services :
       p1[s].st # "idle" =>
         /\ p1[s].attempts >= 1
         /\ p1[s].attempts <= count.failed1[s] + 1

\* C14: the payload of an appserver has, under each relationship name the
\* appserver declares and under no other name, exactly the endpoint the probe
\* of the bound backing service returned, carrying the ip, hostname, service
\* name and type of the live facts of that service (they replace the probe's
\* fields of the same name) and the probe's other fields
C14_PayloadFromBoundService ==
  \A a \in Appservers :
    p2[a].payload # None =>
      LET payload == p2[a].payload[1]
          rels == Relationships(a)
      IN /\ DOMAIN payload = DOMAIN rels
         /\ \A r \in DOMAIN rels :
              LET s == rels[r]
              IN /\ openMerge[s] # None
                 /\ openMerge[s][1].service = s
                 /\ Len(payload[r]) = 1
                 /\ payload[r][1].host = parseOpenData(s).host
                 /\ payload[r][1].ip = openMerge[s][1].ip
                 /\ payload[r][1].hostname = openMerge[s][1].hostname
                 /\ payload[r][1].service = s
                 /\ payload[r][1].type = openMerge[s][1].type

\* C14 witness: an appserver bound to two services whose addresses differ was
\* probed with a payload that holds each service's own address
C14_Witness ==
  /\ Started2("web")
  /\ p2["web"].payload # None
  /\ openMerge["db"] # None
  /\ openMerge["cache"] # None
  /\ openMerge["db"][1].ip # openMerge["cache"][1].ip
  /\ p2["web"].payload[1].database[1].ip = openMerge["db"][1].ip
  /\ p2["web"].payload[1].rediscache[1].ip = openMerge["cache"][1].ip

\* C15 as stated: no cache key is ever written by two concurrently running
\* tasks, be they two phase-2 openings or a post-pull and a post-push refresh
C15_OneWriterPerKey == sharedKeys = {}

\* C15, amended: no two concurrently running phase-2 openings write the same
\* cache key, each writes the open cache of its own appserver only; the only
\* keys two concurrently running tasks write are the token list and the app's
\* metadata, which the post-pull and the post-push refresh both write
C15_OpenKeysNotShared ==
  /\ sharedKeys \subseteq {TokenKey, MetaKey}
  /\ \A a \in Appservers : keyWriters[a] \subseteq {a}

\* C15 witness: both appservers were opened, each wrote its own key, and a
\* post-pull and a post-push refresh that ran concurrently both wrote the token
\* list and the metadata
C15_Witness ==
  /\ \A a \in Appservers : keyWriters[a] = {a}
  /\ sharedKeys = {TokenKey, MetaKey}
  /\ done["pull"] # None
  /\ done["push"] # None

\* C16: a start of an app that declares an unsupported service, in which
\* nothing or only a phase-1 or phase-2 probe of the OPEN handler failed, ends
\* with the unsupported-services warning added; and no warning is added when no
\* declared service is unsupported
C16_WarningAdded ==
  /\ declared = {} => warnings = 0
  /\ ( /\ declared # {}
       /\ containers
       /\ pc \in {"started", "aborted"}
       /\ thrown \in {"none", "ProbeError", "ProbeExecutionError"} ) =>
       warnings >= 1

OpenProbing == pc \in {"p1_wait", "p2_map", "p2_wait"}
OpenEnded == pc \in {"poststart", "aborted"}

\* C18: every backing-service probe that was started has been attempted at
\* least once and at most MaxAttempts times, and an OPEN handler that is probing
\* eventually resolves (Complete) or is rejected (failed)
C18_OpenTerminates ==
  /\ [](\A s \in Services :
          p1[s].st # "idle" => p1[s].attempts \in 1..MaxAttempts)
  /\ OpenProbing ~> OpenEnded

\* C18 witness: an OPEN handler resolved after a probe needed every attempt
C18_Witness ==
  /\ pc = "poststart"
  /\ \A a \in Appservers : p2[a].st = "ok"
  /\ \E s \in Services : p1[s].attempts = MaxAttempts /\ p1[s].st = "parsed"

\* C19 as stated: the record in the app's metadata cache is a record of the
\* persisted token list (same token, email and date)
C19_MetaInTokenList ==
  cache.meta # None => cache.meta[1] \in Range(cache.tokens)

\* C19, amended: the record in the app's metadata cache is a record of the
\* persisted token list unless another application, which writes the same token
\* list, was the last to refresh the token of that identity
C19_MetaInTokenListOrForeign ==
  cache.meta # None =>
    \/ cache.meta[1] \in Range(cache.tokens)
    \/ cache.meta[1].email \in foreign

\* C19 witness: the pull and the push refresh of the app completed for one
\* identity within one second, with different tokens, and the token of the
\* metadata is the one in the token list
C19_Witness ==
  /\ done["pull"] # None
  /\ done["push"] # None
  /\ done["pull"][1].rec.email = done["push"][1].rec.email
  /\ done["pull"][1].rec.date = done["push"][1].rec.date
  /\ done["pull"][1].rec.token # done["push"][1].rec.token
  /\ foreign = {}
  /\ cache.meta # None
  /\ cache.meta[1] \in Range(cache.tokens)

\* C20: however many init events precede it, a start has one handler of each
\* kind registered and begins each of its actions at most once: the run-config
\* write pass, the inspection and the phase-1 probe sequence of every backing
\* service, the phase-2 probe of every appserver and the unsupported-services
\* check; a completed start has done each exactly once
C20_EachActionOnce ==
  /\ \A k \in DOMAIN reg : reg[k] <= 1
  /\ count.write <= 1
  /\ count.check <= 1
  /\ \A s \in Services : count.scan[s] <= 1 /\ count.probe1[s] <= 1
  /\ \A a \in Appservers : count.probe2[a] <= 1
  /\ pc = "started" =>
       /\ count.write = 1
       /\ count.check = 1
       /\ \A s \in Services : count.scan[s] = 1 /\ count.probe1[s] = 1
       /\ \A a \in Appservers : count.probe2[a] = 1

====
